---- MODULE Spec2Model ----
(***************************************************************************)
(* A model of the YUV420 tools of shriram-m/yuv-tools: the plane layout,   *)
(* frame extraction from a raw planar stream (read_yuv_frame,              *)
(* get_frame_count) and the BT.601 integer pixel conversion (yuv_to_rgb).  *)
(*                                                                         *)
(* The scripts fix the resolution in the module constants VIDEO_WIDTH and  *)
(* VIDEO_HEIGHT (736 x 442).  A frame of that size cannot be enumerated    *)
(* byte by byte, so the model keeps the two constants as values chosen in  *)
(* the initial state from small sets; every derived size is computed from  *)
(* them exactly as the scripts compute it.                                 *)
(***************************************************************************)
EXTENDS Integers, Sequences, FiniteSets, TLC

\* ------------------------------------------------------------------ bounds
\* Largest width and height of the resolutions frames are extracted at.
MaxWidth == 4
MaxHeight == 4
\* Largest number of complete frames in a modelled stream.
MaxFrames == 2
\* Largest width / height the layout computation is applied to.
MaxDim == 6
\* Half-width of the windows of sample values the pixel conversion is
\* applied to.
Radius == 2

VARIABLES
    VIDEO_WIDTH,    \* module constant VIDEO_WIDTH
    VIDEO_HEIGHT,   \* module constant VIDEO_HEIGHT
    layout,         \* script -> the sizes it computed when it was loaded
    stream,         \* the bytes of the YUV file (unchanging)
    handleOf,       \* thread -> the file object its calls are given
    pos,            \* file object -> read cursor
    pc,             \* thread -> position inside read_yuv_frame
    frame_number,   \* thread -> argument frame_number of the running call
    frame_data,     \* thread -> local frame_data
    result,         \* thread -> value returned by the last call
    exc,            \* thread -> exception raised by the last call
    kept,           \* thread -> an earlier frame the caller still holds
    frame_count,    \* value returned by get_frame_count, once called
    pixel,          \* the (y, u, v) sample triplet handed to yuv_to_rgb
    rgb,            \* the (r, g, b) it returned
    rgb_simple,     \* the (r, g, b) of yuv420_to_rgb_simple for the triplet
    planes,         \* a frame (y, u, v) handed to the analysis functions
    planes2,        \* a second frame handed to the comparison
    basic,          \* what analyze_frame_basic computed and reported
    dist,           \* what analyze_y_plane_distribution computed and reported
    validity,       \* what check_frame_validity reported
    rgb_pixels,     \* the list yuv420_to_rgb_manual returned
    diff,           \* what the frame comparison computed and reported
    batch,          \* the run of yuv_batch_viewer's main: its locals and files
    viewer          \* the play loop of yuv_viewer's main: its locals and output

vars == <<VIDEO_WIDTH, VIDEO_HEIGHT, layout, stream, handleOf, pos, pc,
          frame_number, frame_data, result, exc, kept, frame_count,
          pixel, rgb, rgb_simple, planes, planes2, basic, dist, validity,
          rgb_pixels, diff, batch, viewer>>

\* The variables of each part of the model.
resVars == <<VIDEO_WIDTH, VIDEO_HEIGHT>>
extractVars == <<stream, handleOf, pos, pc, frame_number, frame_data,
                 result, exc, kept, frame_count>>
convVars == <<pixel, rgb, rgb_simple>>
analysisVars == <<planes, planes2, basic, dist, validity, rgb_pixels, diff>>
loopVars == <<batch, viewer>>

\* ------------------------------------------------------------ plane layout
Y_SIZE == VIDEO_WIDTH * VIDEO_HEIGHT

UV_SIZE == (VIDEO_WIDTH \div 2) * (VIDEO_HEIGHT \div 2)

FRAME_SIZE_one_chroma == Y_SIZE + UV_SIZE
FRAME_SIZE == Y_SIZE + 2 * UV_SIZE

\* A resolution the 4:2:0 layout is defined for.
ValidResolution(w, h) == w > 0 /\ h > 0 /\ w % 2 = 0 /\ h % 2 = 0

\* The scripts that each compute the sizes at module level.
Scripts == {"yuv_analyzer", "yuv_batch_viewer"}

NotLoaded == [loaded |-> FALSE, y_size |-> 0, uv_size |-> 0, frame_size |-> 0]

\* Loading a script evaluates its module-level size computation; nothing
\* in it inspects the resolution.
Load(m) ==
    /\ ~layout[m].loaded
    /\ layout' = [layout EXCEPT ![m] = [loaded |-> TRUE, y_size |-> Y_SIZE,
                                        uv_size |-> UV_SIZE,
                                        frame_size |-> FRAME_SIZE]]
    /\ UNCHANGED <<loopVars, resVars, extractVars, convVars, analysisVars>>

\* ------------------------------------------------------------------ stream
Threads == {"t1", "t2"}
Handles == {"f1", "f2"}

\* Byte p (0-based) of a test stream: neighbouring bytes differ and no byte
\* value repeats within 256 positions, so a dropped, repeated or moved byte
\* shows.
ByteAt(seed, p) == (seed + 7 * p) % 256

Pattern(seed, n) == [k \in 1..n |-> ByteAt(seed, k - 1)]

Seeds == {0, 251}

\* python slice s[a:b] for 0 <= a <= b
Slice(s, a, b) ==
    LET hi == IF b > Len(s) THEN Len(s) ELSE b
    IN  IF a >= hi THEN <<>> ELSE SubSeq(s, a + 1, hi)

\* ------------------------------------------------------------ file object
EINVAL == "OSError(EINVAL)"
NoExc == "none"

\* file_handle.seek(offset) with the cursor at cur: the new cursor, or -1
\* when the call raises OSError(EINVAL) (a negative absolute offset).
seek_relative(cur, offset) == IF cur + offset < 0 THEN -1 ELSE cur + offset
seek_clamped(cur, offset) == IF offset < 0 THEN 0 ELSE offset
seek(cur, offset) == IF offset < 0 THEN -1 ELSE offset

\* file_handle.read(n) with the cursor at cur: the bytes up to n that remain.
read(s, cur, n) == Slice(s, cur, cur + n)

\* The file object a call of thread t works on (parameter file_handle).
file_handle_global(t) == "f1"
file_handle(t) == handleOf[t]

\* --------------------------------------------------------- read_yuv_frame
NoneTriple == [none |-> TRUE, y |-> <<>>, u |-> <<>>, v |-> <<>>]

ZeroPad(data, n) == [k \in 1..n |-> IF k <= Len(data) THEN data[k] ELSE 0]

SplitPlanes_padded(data) ==
    IF Len(data) = 0
    THEN NoneTriple
    ELSE LET d == ZeroPad(data, FRAME_SIZE)
         IN  [none |-> FALSE,
              y |-> Slice(d, 0, Y_SIZE),
              u |-> Slice(d, Y_SIZE, Y_SIZE + UV_SIZE),
              v |-> Slice(d, Y_SIZE + UV_SIZE, Y_SIZE + 2 * UV_SIZE)]

SplitPlanes_swapped(data) ==
    IF Len(data) # FRAME_SIZE
    THEN NoneTriple
    ELSE [none |-> FALSE,
          y |-> Slice(data, 0, Y_SIZE),
          u |-> Slice(data, Y_SIZE + UV_SIZE, Y_SIZE + 2 * UV_SIZE),
          v |-> Slice(data, Y_SIZE, Y_SIZE + UV_SIZE)]

\* The length test and the split into planes.
SplitPlanes(data) ==
    IF Len(data) # FRAME_SIZE
    THEN NoneTriple
    ELSE [none |-> FALSE,
          y |-> Slice(data, 0, Y_SIZE),
          u |-> Slice(data, Y_SIZE, Y_SIZE + UV_SIZE),
          v |-> Slice(data, Y_SIZE + UV_SIZE, Y_SIZE + 2 * UV_SIZE)]

Indices == -1 .. (MaxFrames + 1)

NothingKept == [has |-> FALSE, idx |-> 0, res |-> NoneTriple]

\* A caller enters read_yuv_frame(file_handle, i).
Call(t, i) ==
    /\ pc[t] = "idle"
    /\ pc' = [pc EXCEPT ![t] = "seek"]
    /\ frame_number' = [frame_number EXCEPT ![t] = i]
    /\ UNCHANGED <<loopVars, resVars, layout, stream, handleOf, pos, frame_data,
                   result, exc, kept, frame_count, convVars, analysisVars>>

\* file_handle.seek(frame_number * FRAME_SIZE)
Seek(t) ==
    /\ pc[t] = "seek"
    /\ LET f == file_handle(t)
           p == seek(pos[f], frame_number[t] * FRAME_SIZE)
       IN  IF p < 0
           THEN /\ pc' = [pc EXCEPT ![t] = "raised"]
                /\ exc' = [exc EXCEPT ![t] = EINVAL]
                /\ UNCHANGED pos
           ELSE /\ pc' = [pc EXCEPT ![t] = "read"]
                /\ pos' = [pos EXCEPT ![f] = p]
                /\ UNCHANGED exc
    /\ UNCHANGED <<loopVars, resVars, layout, stream, handleOf, frame_number,
                   frame_data, result, kept, frame_count, convVars, analysisVars>>

\* frame_data = file_handle.read(FRAME_SIZE)
Read(t) ==
    /\ pc[t] = "read"
    /\ LET f == file_handle(t)
           d == read(stream, pos[f], FRAME_SIZE)
       IN  /\ frame_data' = [frame_data EXCEPT ![t] = d]
           /\ pos' = [pos EXCEPT ![f] = @ + Len(d)]
    /\ pc' = [pc EXCEPT ![t] = "check"]
    /\ UNCHANGED <<loopVars, resVars, layout, stream, handleOf, frame_number, result,
                   exc, kept, frame_count, convVars, analysisVars>>

\* the length test, the split and the return
Return(t) ==
    /\ pc[t] = "check"
    /\ result' = [result EXCEPT ![t] = SplitPlanes(frame_data[t])]
    /\ pc' = [pc EXCEPT ![t] = "done"]
    /\ UNCHANGED <<loopVars, resVars, layout, stream, handleOf, pos, frame_number,
                   frame_data, exc, kept, frame_count, convVars, analysisVars>>

\* The caller drops what the call gave (planes, None or the exception).
Finish(t) ==
    /\ pc[t] \in {"done", "raised"}
    /\ pc' = [pc EXCEPT ![t] = "idle"]
    /\ frame_number' = [frame_number EXCEPT ![t] = 0]
    /\ frame_data' = [frame_data EXCEPT ![t] = <<>>]
    /\ result' = [result EXCEPT ![t] = NoneTriple]
    /\ exc' = [exc EXCEPT ![t] = NoExc]
    /\ UNCHANGED <<loopVars, resVars, layout, stream, handleOf, pos, kept,
                   frame_count, convVars, analysisVars>>

\* The caller holds on to the returned triple for a later comparison, as
\* compare_frames does with y1, u1, v1 while it extracts the second frame.
Keep(t) ==
    /\ pc[t] = "done"
    /\ kept' = [kept EXCEPT ![t] = [has |-> TRUE, idx |-> frame_number[t],
                                    res |-> result[t]]]
    /\ pc' = [pc EXCEPT ![t] = "idle"]
    /\ frame_number' = [frame_number EXCEPT ![t] = 0]
    /\ frame_data' = [frame_data EXCEPT ![t] = <<>>]
    /\ result' = [result EXCEPT ![t] = NoneTriple]
    /\ UNCHANGED <<loopVars, resVars, layout, stream, handleOf, pos, exc,
                   frame_count, convVars, analysisVars>>

\* -------------------------------------------------------- get_frame_count
NotCounted == [known |-> FALSE, n |-> 0]

get_frame_count_ceil(file_size) == (file_size + FRAME_SIZE - 1) \div FRAME_SIZE
get_frame_count(file_size) == file_size \div FRAME_SIZE

GetFrameCount ==
    /\ ~frame_count.known
    /\ frame_count' = [known |-> TRUE, n |-> get_frame_count(Len(stream))]
    /\ UNCHANGED <<loopVars, resVars, layout, stream, handleOf, pos, pc, frame_number,
                   frame_data, result, exc, kept, convVars, analysisVars>>

\* ------------------------------------------------------------- yuv_to_rgb
\* x >> 8 on a python int: an arithmetic shift of the two's-complement
\* value, ~((~x) >> 8) for a negative x.
ShiftRight8(x) ==
    IF x >= 0 THEN x \div 256 ELSE -1 - ((-1 - x) \div 256)

\* max(0, min(255, int(value)))
clamp(value) == IF value < 0 THEN 0 ELSE IF value > 255 THEN 255 ELSE value

yuv_to_rgb_unrounded(y, u, v) ==
    LET c == y - 16
        d == u - 128
        e == v - 128
    IN  <<clamp(ShiftRight8(298 * c + 409 * e)),
          clamp(ShiftRight8(298 * c - 100 * d - 208 * e)),
          clamp(ShiftRight8(298 * c + 516 * d))>>

yuv_to_rgb(y, u, v) ==
    LET c == y - 16
        d == u - 128
        e == v - 128
    IN  <<clamp(ShiftRight8(298 * c + 409 * e + 128)),
          clamp(ShiftRight8(298 * c - 100 * d - 208 * e + 128)),
          clamp(ShiftRight8(298 * c + 516 * d + 128))>>

\* One call of yuv_to_rgb on the sample triplet.
Convert ==
    /\ rgb = <<>>
    /\ rgb' = yuv_to_rgb(pixel[1], pixel[2], pixel[3])
    /\ UNCHANGED <<loopVars, resVars, layout, extractVars, pixel, rgb_simple, analysisVars>>

\* ------------------------------------------------------- python builtins
\* The values a list holds: set(p).
Values(p) == {p[k] : k \in 1..Len(p)}

\* p[lo] + ... + p[hi], added up by halves
RECURSIVE SumRange(_, _, _)
SumRange(p, lo, hi) ==
    IF lo > hi THEN 0
    ELSE IF lo = hi THEN p[lo]
    ELSE LET mid == (lo + hi) \div 2
         IN  SumRange(p, lo, mid) + SumRange(p, mid + 1, hi)

\* sum(p)
sum(p) == SumRange(p, 1, Len(p))

\* min(p) and max(p) of a non-empty list (both raise ValueError on [])
min(p) == CHOOSE m \in Values(p) : \A x \in Values(p) : m <= x
max(p) == CHOOSE m \in Values(p) : \A x \in Values(p) : m >= x

\* a / b of two ints (b # 0) as the exact quotient num / den
quotient_truncated(a, b) == [num |-> a \div b, den |-> 1]
quotient(a, b) == [num |-> a, den |-> b]

\* abs(a - b)
absdiff(a, b) == IF a >= b THEN a - b ELSE b - a

\* [f(a, b) for a, b in zip(p, q)] with f = abs(a - b): as long as the
\* shorter list
zip_absdiff(p, q) ==
    LET n == IF Len(p) <= Len(q) THEN Len(p) ELSE Len(q)
    IN  [k \in 1..n |-> absdiff(p[k], q[k])]

\* ---------------------------------------------------- analyze_frame_basic
NoFrame == [y |-> <<>>, u |-> <<>>, v |-> <<>>]

NoStat == [has |-> FALSE, min |-> 0, max |-> 0, avg |-> quotient(0, 1),
           unique |-> 0]

\* the statistics with the samples counted in place of the unique values
PlaneStat_per_sample(p) ==
    [has |-> TRUE, min |-> min(p), max |-> max(p),
     avg |-> quotient(sum(p), Len(p)), unique |-> Len(p)]

\* min, max, average and number of unique values of one non-empty plane
PlaneStat(p) ==
    [has |-> TRUE, min |-> min(p), max |-> max(p),
     avg |-> quotient(sum(p), Len(p)), unique |-> Cardinality(Values(p))]

\* all(val == p[0] for val in p)
all_equal_zero(p) == \A k \in 1..Len(p) : p[k] = 0
all_equal_first(p) == \A k \in 1..Len(p) : p[k] = p[1]

Finding(plane, kind) == [plane |-> plane, kind |-> kind]

\* `issues` is extended by one message when the condition holds
When(cond, finding) == IF cond THEN <<finding>> ELSE <<>>

NotAnalyzed == [state |-> "idle", exc |-> NoExc, y |-> NoStat, u |-> NoStat,
                v |-> NoStat, issues |-> <<>>]

\* min, max and average given defaults for a plane without samples
PlaneStat_defaulted(p) ==
    IF Len(p) = 0 THEN [NoStat EXCEPT !.has = TRUE] ELSE PlaneStat(p)

analyze_frame_basic_defaulted(y, u, v) ==
    LET ys == PlaneStat_defaulted(y)
        us == PlaneStat_defaulted(u)
        vs == PlaneStat_defaulted(v)
    IN  [state |-> "ok", exc |-> NoExc, y |-> ys, u |-> us, v |-> vs,
         issues |->
             When(ys.max - ys.min < 20, Finding("y", "low contrast"))
             \o When(ys.unique < 50, Finding("y", "few unique"))
             \o When(us.unique < 10, Finding("u", "few unique"))
             \o When(vs.unique < 10, Finding("v", "few unique"))
             \o When(all_equal_first(y), Finding("y", "constant"))
             \o When(all_equal_first(u), Finding("u", "constant"))
             \o When(all_equal_first(v), Finding("v", "constant"))]

\* the health check with <= in place of < at its thresholds
analyze_frame_basic_inclusive(y, u, v) ==
    IF Len(y) = 0 \/ Len(u) = 0 \/ Len(v) = 0
    THEN [NotAnalyzed EXCEPT !.state = "raised", !.exc = "ValueError"]
    ELSE LET ys == PlaneStat(y)
             us == PlaneStat(u)
             vs == PlaneStat(v)
         IN  [state |-> "ok", exc |-> NoExc, y |-> ys, u |-> us, v |-> vs,
              issues |->
                  When(ys.max - ys.min <= 20, Finding("y", "low contrast"))
                  \o When(ys.unique <= 50, Finding("y", "few unique"))
                  \o When(us.unique <= 10, Finding("u", "few unique"))
                  \o When(vs.unique <= 10, Finding("v", "few unique"))
                  \o When(all_equal_first(y), Finding("y", "constant"))
                  \o When(all_equal_first(u), Finding("u", "constant"))
                  \o When(all_equal_first(v), Finding("v", "constant"))]

\* the health check as a chain that stops at the first rule that fires
RECURSIVE first_of(_)
first_of(lists) ==
    IF lists = <<>> THEN <<>>
    ELSE IF Head(lists) # <<>> THEN Head(lists)
    ELSE first_of(Tail(lists))

analyze_frame_basic_elif(y, u, v) ==
    IF Len(y) = 0 \/ Len(u) = 0 \/ Len(v) = 0
    THEN [NotAnalyzed EXCEPT !.state = "raised", !.exc = "ValueError"]
    ELSE LET ys == PlaneStat(y)
             us == PlaneStat(u)
             vs == PlaneStat(v)
         IN  [state |-> "ok", exc |-> NoExc, y |-> ys, u |-> us, v |-> vs,
              issues |-> first_of(
                  <<When(ys.max - ys.min < 20, Finding("y", "low contrast")),
                    When(ys.unique < 50, Finding("y", "few unique")),
                    When(us.unique < 10, Finding("u", "few unique")),
                    When(vs.unique < 10, Finding("v", "few unique")),
                    When(all_equal_first(y), Finding("y", "constant")),
                    When(all_equal_first(u), Finding("u", "constant")),
                    When(all_equal_first(v), Finding("v", "constant"))>>)]

\* analyze_frame_basic(y, u, v, frame_number): the statistics it prints and
\* the issues of its health check.  min() of an empty plane raises
\* ValueError; what was computed before stays printed.
analyze_frame_basic(y, u, v) ==
    IF Len(y) = 0
    THEN [NotAnalyzed EXCEPT !.state = "raised", !.exc = "ValueError"]
    ELSE IF Len(u) = 0
    THEN [NotAnalyzed EXCEPT !.state = "raised", !.exc = "ValueError",
                             !.y = PlaneStat(y)]
    ELSE IF Len(v) = 0
    THEN [NotAnalyzed EXCEPT !.state = "raised", !.exc = "ValueError",
                             !.y = PlaneStat(y), !.u = PlaneStat(u)]
    ELSE LET ys == PlaneStat(y)
             us == PlaneStat(u)
             vs == PlaneStat(v)
         IN  [state |-> "ok", exc |-> NoExc, y |-> ys, u |-> us, v |-> vs,
              issues |->
                  When(ys.max - ys.min < 20, Finding("y", "low contrast"))
                  \o When(ys.unique < 50, Finding("y", "few unique"))
                  \o When(us.unique < 10, Finding("u", "few unique"))
                  \o When(vs.unique < 10, Finding("v", "few unique"))
                  \o When(all_equal_first(y), Finding("y", "constant"))
                  \o When(all_equal_first(u), Finding("u", "constant"))
                  \o When(all_equal_first(v), Finding("v", "constant"))]

\* ------------------------------------------- analyze_y_plane_distribution
\* bin_idx = min(val // 16, 15)
bin_idx_14(val) == IF val \div 16 < 14 THEN val \div 16 ELSE 14
bin_idx(val) == IF val \div 16 < 15 THEN val \div 16 ELSE 15

\* bins = [0] * 16, then bins[bin_idx] += 1 for the values lo..hi, the
\* increments of the two halves added up
RECURSIVE BinsRange(_, _, _)
BinsRange(y, lo, hi) ==
    IF lo > hi THEN [b \in 0..15 |-> 0]
    ELSE IF lo = hi THEN [b \in 0..15 |-> IF b = bin_idx(y[lo]) THEN 1 ELSE 0]
    ELSE LET mid == (lo + hi) \div 2
             left == BinsRange(y, lo, mid)
             right == BinsRange(y, mid + 1, hi)
         IN  [b \in 0..15 |-> left[b] + right[b]]

NoDistribution == [state |-> "idle", exc |-> NoExc,
                   bins |-> [b \in 0..15 |-> 0], total_pixels |-> 0,
                   warnings |-> <<>>]

\* analyze_y_plane_distribution(y, frame_number): the histogram it prints
\* and its warnings.  With no pixels the percentage of the first printed
\* row divides by zero.
analyze_y_plane_distribution(y) ==
    LET bins == BinsRange(y, 1, Len(y))
        total_pixels == Len(y)
        max_bin == max([k \in 1..16 |-> bins[k - 1]])
    IN  IF total_pixels = 0
        THEN [NoDistribution EXCEPT !.state = "raised",
                                    !.exc = "ZeroDivisionError"]
        ELSE [state |-> "ok", exc |-> NoExc, bins |-> bins,
              total_pixels |-> total_pixels,
              warnings |->
                  When(10 * bins[0] > total_pixels, Finding("y", "pure black"))
                  \o When(10 * max_bin > 8 * total_pixels,
                          Finding("y", "clustered"))]

\* --------------------------------------------------- check_frame_validity
NotValidated == [state |-> "idle", exc |-> NoExc, issues |-> <<>>,
                 warnings |-> <<>>, valid |-> FALSE]

\* y[line_end_idx] of the first min(10, VIDEO_HEIGHT) rows that are in y
line_end_pattern(y) ==
    LET rows == IF VIDEO_HEIGHT < 10 THEN VIDEO_HEIGHT ELSE 10
    IN  {row \in 0..(rows - 1) : row * VIDEO_WIDTH + VIDEO_WIDTH - 1 < Len(y)}

\* check_frame_validity(y, u, v, frame_number): issues are reported as
\* CRITICAL ISSUES, warnings as WARNINGS.  max() of an empty Y plane raises
\* ValueError, the average of an empty chroma plane ZeroDivisionError.
check_frame_validity(y, u, v) ==
    IF Len(y) = 0
    THEN [NotValidated EXCEPT !.state = "raised", !.exc = "ValueError"]
    ELSE IF Len(u) = 0 \/ Len(v) = 0
    THEN [NotValidated EXCEPT !.state = "raised",
                              !.exc = "ZeroDivisionError"]
    ELSE LET y_range == max(y) - min(y)
             y_unique == Cardinality(Values(y))
             y_zeros == Cardinality({k \in 1..Len(y) : y[k] = 0})
             u_unique == Cardinality(Values(u))
             v_unique == Cardinality(Values(v))
             ends == line_end_pattern(y)
             end_values ==
                 {y[row * VIDEO_WIDTH + VIDEO_WIDTH] : row \in ends}
             issues ==
                 When(y_range < 30, Finding("y", "low range"))
                 \o When(Cardinality(end_values) = 1
                             /\ Cardinality(ends) > 5,
                         Finding("y", "line endings"))
             warnings ==
                 When(y_unique < 50, Finding("y", "low diversity"))
                 \o When(10 * y_zeros > Len(y), Finding("y", "many zeros"))
                 \o When(u_unique < 10, Finding("u", "low diversity"))
                 \o When(v_unique < 10, Finding("v", "low diversity"))
         IN  [state |-> "ok", exc |-> NoExc, issues |-> issues,
              warnings |-> warnings, valid |-> Len(issues) = 0]

\* What check_frame_validity prints: the CRITICAL ISSUES, then the WARNINGS.
reported(checked) == checked.issues \o checked.warnings

\* --------------------------------------------------------- compare_frames
NoDiff == [avg |-> quotient(0, 1), max |-> 0]

NotCompared == [state |-> "idle", exc |-> NoExc, y |-> NoDiff, u |-> NoDiff,
                v |-> NoDiff, y_big_diffs |-> 0, total_pixels |-> 0,
                verdict |-> "none"]

\* sum(1 for d in diffs if d > 50)
big_diffs_from_50(diffs) == Cardinality({k \in 1..Len(diffs) : diffs[k] >= 50})
big_diffs(diffs) == Cardinality({k \in 1..Len(diffs) : diffs[k] > 50})

\* the total of the differences in place of their average
PlaneDiff_total(diffs) == [avg |-> quotient(sum(diffs), 1),
                           max |-> max(diffs)]

\* average and maximum of one plane's differences
PlaneDiff(diffs) == [avg |-> quotient(sum(diffs), Len(diffs)),
                     max |-> max(diffs)]

\* the verdict with >= 30 and <= 2 in place of > 30 and < 2
compare_planes_inclusive(f1, f2) ==
    LET y_diffs == zip_absdiff(f1.y, f2.y)
        u_diffs == zip_absdiff(f1.u, f2.u)
        v_diffs == zip_absdiff(f1.v, f2.v)
    IN  IF Len(y_diffs) = 0 \/ Len(u_diffs) = 0 \/ Len(v_diffs) = 0
        THEN [NotCompared EXCEPT !.state = "raised",
                                 !.exc = "ZeroDivisionError"]
        ELSE [state |-> "ok", exc |-> NoExc,
              y |-> PlaneDiff(y_diffs),
              u |-> PlaneDiff(u_diffs),
              v |-> PlaneDiff(v_diffs),
              y_big_diffs |-> big_diffs(y_diffs),
              total_pixels |-> Len(y_diffs),
              verdict |->
                  IF sum(y_diffs) >= 30 * Len(y_diffs) THEN "very different"
                  ELSE IF sum(y_diffs) <= 2 * Len(y_diffs) THEN "very similar"
                  ELSE "normal"]

\* the rest of compare_frames once both frames are read: the differences of
\* the zipped planes, their averages (division by zero when a pair of planes
\* has no common sample), maxima, the count of big Y differences and the
\* verdict on the Y average.
compare_planes(f1, f2) ==
    LET y_diffs == zip_absdiff(f1.y, f2.y)
        u_diffs == zip_absdiff(f1.u, f2.u)
        v_diffs == zip_absdiff(f1.v, f2.v)
    IN  IF Len(y_diffs) = 0 \/ Len(u_diffs) = 0 \/ Len(v_diffs) = 0
        THEN [NotCompared EXCEPT !.state = "raised",
                                 !.exc = "ZeroDivisionError"]
        ELSE [state |-> "ok", exc |-> NoExc,
              y |-> PlaneDiff(y_diffs),
              u |-> PlaneDiff(u_diffs),
              v |-> PlaneDiff(v_diffs),
              y_big_diffs |-> big_diffs(y_diffs),
              total_pixels |-> Len(y_diffs),
              verdict |->
                  IF sum(y_diffs) > 30 * Len(y_diffs) THEN "very different"
                  ELSE IF sum(y_diffs) < 2 * Len(y_diffs) THEN "very similar"
                  ELSE "normal"]

\* compare_frames(file_handle, frame1_num, frame2_num) given what its two
\* read_yuv_frame calls returned
compare_frames(r1, r2) ==
    IF r1.none \/ r2.none
    THEN [NotCompared EXCEPT !.state = "error"]
    ELSE compare_planes(r1, r2)

\* --------------------------------------------------- yuv420_to_rgb_manual
\* y[idx] if idx < len(y) else fallback, idx counted from 0
at_or(p, idx, fallback) == IF idx < Len(p) THEN p[idx + 1] ELSE fallback

uv_idx_full_width(row, col) == (row \div 2) * VIDEO_WIDTH + (col \div 2)
uv_idx(row, col) == (row \div 2) * (VIDEO_WIDTH \div 2) + (col \div 2)

\* the pixel appended for (row, col)
manual_pixel(y, u, v, row, col) ==
    yuv_to_rgb(at_or(y, row * VIDEO_WIDTH + col, 0),
               at_or(u, uv_idx(row, col), 128),
               at_or(v, uv_idx(row, col), 128))

\* for col in range(VIDEO_WIDTH): rgb_pixels.append(...)
RECURSIVE manual_cols(_, _, _, _, _)
manual_cols(y, u, v, row, col) ==
    IF col >= VIDEO_WIDTH
    THEN <<>>
    ELSE <<manual_pixel(y, u, v, row, col)>>
             \o manual_cols(y, u, v, row, col + 1)

\* for row in range(VIDEO_HEIGHT): ...
RECURSIVE manual_rows(_, _, _, _)
manual_rows(y, u, v, row) ==
    IF row >= VIDEO_HEIGHT
    THEN <<>>
    ELSE manual_cols(y, u, v, row, 0) \o manual_rows(y, u, v, row + 1)

yuv420_to_rgb_manual(y, u, v) == manual_rows(y, u, v, 0)

\* ------------------------------------------------ yuv_batch_viewer main
NoSummaryFile == [written |-> FALSE, processed |-> 0, lines |-> <<>>]

\* main() of yuv_batch_viewer before it starts.  dir_exists: the output
\* directory is there; saved_files and summaries hold frame numbers, the
\* frame the file or the summary line is of.
NotStarted ==
    [pc |-> "idle", frames_to_process |-> <<>>, i |-> 0,
     saved_files |-> <<>>, summaries |-> <<>>, dir_exists |-> FALSE,
     summary_file |-> NoSummaryFile, exc |-> NoExc]

\* list(range(start, stop, step)) for a step other than 0
py_range(start, stop, step) ==
    LET n == IF step > 0
             THEN IF stop > start THEN (stop - start + step - 1) \div step
                                  ELSE 0
             ELSE IF start > stop THEN (start - stop - step - 1) \div (-step)
                                  ELSE 0
    IN  [k \in 1..n |-> start + (k - 1) * step]

NoFrameArg == [given |-> FALSE, n |-> 0]
NoRangeArg == [given |-> FALSE, start |-> 0, end |-> 0]

\* The command lines: --frame k, --range start end, --sample N, or none of
\* them (sample has its default, 10).
BatchArgs ==
    {[frame |-> [given |-> TRUE, n |-> k], range |-> NoRangeArg, sample |-> 10]
        : k \in Indices}
    \cup {[frame |-> NoFrameArg,
           range |-> [given |-> TRUE, start |-> a, end |-> b], sample |-> 10]
        : a \in -1..MaxFrames, b \in Indices}
    \cup {[frame |-> NoFrameArg, range |-> NoRangeArg, sample |-> n]
        : n \in (-1..MaxFrames) \cup {10}}

\* The frames the loop is to go through, in the else-branch for a step
\* range() accepts.
frames_to_process(args, count) ==
    IF args.frame.given
    THEN <<args.frame.n>>
    ELSE IF args.range.given
         THEN py_range(args.range.start,
                       IF args.range.end + 1 < count THEN args.range.end + 1
                                                     ELSE count, 1)
         ELSE py_range(0, count, args.sample)

\* main() up to the loop: the frame count from the file size and the list
\* of frames; range() raises ValueError for --sample 0.
BatchStart(t, args, dir) ==
    /\ batch.pc = "idle"
    /\ pc[t] = "idle"
    /\ ~frame_count.known
    /\ frame_count' = [known |-> TRUE, n |-> Len(stream) \div FRAME_SIZE]
    /\ IF ~args.frame.given /\ ~args.range.given /\ args.sample = 0
       THEN batch' = [NotStarted EXCEPT !.pc = "crashed",
                                        !.exc = "ValueError",
                                        !.dir_exists = dir]
       ELSE batch' = [NotStarted EXCEPT
                         !.pc = "loop",
                         !.frames_to_process =
                             frames_to_process(args, frame_count'.n),
                         !.dir_exists = dir]
    /\ UNCHANGED <<viewer, resVars, layout, stream, handleOf, pos, pc,
                   frame_number, frame_data, result, exc, kept, convVars,
                   analysisVars>>

\* if frame_num >= frame_count: print the warning and continue
BatchSkip(t) ==
    /\ batch.pc = "loop"
    /\ pc[t] = "idle"
    /\ batch.i < Len(batch.frames_to_process)
    /\ batch.frames_to_process[batch.i + 1] >= frame_count.n
    /\ batch' = [batch EXCEPT !.i = @ + 1]
    /\ UNCHANGED <<viewer, resVars, layout, stream, handleOf, extractVars,
                   convVars, analysisVars>>

\* y, u, v = read_yuv_frame(f, frame_num): the call is entered
BatchRead(t) ==
    /\ batch.pc = "loop"
    /\ batch.i < Len(batch.frames_to_process)
    /\ batch.frames_to_process[batch.i + 1] < frame_count.n
    /\ Call(t, batch.frames_to_process[batch.i + 1])

\* The call has returned: on None the error line and continue, else
\* save_frame_as_ppm (which makes the directory), the two appends, and on
\* to the next frame.
BatchProcess(t) ==
    /\ batch.pc = "loop"
    /\ pc[t] = "done"
    /\ IF result[t].none
       THEN batch' = [batch EXCEPT !.i = @ + 1]
       ELSE batch' = [batch EXCEPT
                         !.i = @ + 1,
                         !.dir_exists = TRUE,
                         !.saved_files = Append(@, frame_number[t]),
                         !.summaries = Append(@, frame_number[t])]
    /\ pc' = [pc EXCEPT ![t] = "idle"]
    /\ frame_number' = [frame_number EXCEPT ![t] = 0]
    /\ frame_data' = [frame_data EXCEPT ![t] = <<>>]
    /\ result' = [result EXCEPT ![t] = NoneTriple]
    /\ UNCHANGED <<viewer, resVars, layout, stream, handleOf, pos, exc, kept,
                   frame_count, convVars, analysisVars>>

\* The call has raised: nothing in main() catches it, the run ends there.
BatchRaise(t) ==
    /\ batch.pc = "loop"
    /\ pc[t] = "raised"
    /\ batch' = [batch EXCEPT !.pc = "crashed", !.exc = exc[t]]
    /\ pc' = [pc EXCEPT ![t] = "idle"]
    /\ frame_number' = [frame_number EXCEPT ![t] = 0]
    /\ exc' = [exc EXCEPT ![t] = NoExc]
    /\ UNCHANGED <<viewer, resVars, layout, stream, handleOf, pos, frame_data,
                   result, kept, frame_count, convVars, analysisVars>>

\* After the loop: frame_summary.txt is opened for writing in the output
\* directory (FileNotFoundError when no frame was saved into a directory
\* that did not exist) and gets the count and the summaries.
BatchSummary(t) ==
    /\ batch.pc = "loop"
    /\ pc[t] = "idle"
    /\ batch.i = Len(batch.frames_to_process)
    /\ IF batch.dir_exists
       THEN batch' = [batch EXCEPT
                         !.pc = "complete",
                         !.summary_file =
                             [written |-> TRUE,
                              processed |-> Len(batch.saved_files),
                              lines |-> batch.summaries]]
       ELSE batch' = [batch EXCEPT !.pc = "crashed",
                                   !.exc = "FileNotFoundError"]
    /\ UNCHANGED <<viewer, resVars, layout, stream, handleOf, extractVars,
                   convVars, analysisVars>>

\* ------------------------------------------------- yuv_viewer play loop
\* main() of yuv_viewer with --play before it starts.  reads, displayed,
\* saved: the frame numbers read, shown with imshow, saved on the 's' key;
\* autosaved: those saved because of --save.
NotPlaying ==
    [pc |-> "idle", start |-> 0, count |-> 0, save |-> FALSE,
     frame_num |-> 0, paused |-> FALSE, reads |-> <<>>, displayed |-> <<>>,
     saved |-> <<>>, autosaved |-> <<>>, exc |-> NoExc]

\* min(frame_count, args.start + args.count)
play_limit(count, start, n) == IF count < start + n THEN count ELSE start + n

\* the frame the 's' key saves
frame_to_save_next(frame_num) == frame_num
frame_to_save(frame_num) == frame_num - 1

Keys == {"none", "p", "s", "q"}

\* main() with --play up to the loop
PlayStart(t, start, n, save) ==
    /\ viewer.pc = "idle"
    /\ pc[t] = "idle"
    /\ ~frame_count.known
    /\ frame_count' = [known |-> TRUE, n |-> get_frame_count(Len(stream))]
    /\ viewer' = [NotPlaying EXCEPT !.pc = "head", !.start = start,
                                    !.count = n, !.save = save,
                                    !.frame_num = start]
    /\ UNCHANGED <<batch, resVars, layout, stream, handleOf, pos, pc,
                   frame_number, frame_data, result, exc, kept, convVars,
                   analysisVars>>

\* The loop condition holds and paused is False: read_yuv_frame(f,
\* frame_num) is entered.
PlayRead(t) ==
    /\ viewer.pc = "head"
    /\ viewer.frame_num
           < play_limit(frame_count.n, viewer.start, viewer.count)
    /\ ~viewer.paused
    /\ Call(t, viewer.frame_num)

\* The call has returned: on None the loop is left; else the frame is
\* converted and shown, saved under --save, and frame_num goes up.
PlayShow(t) ==
    /\ viewer.pc = "head"
    /\ pc[t] = "done"
    /\ IF result[t].none
       THEN viewer' = [viewer EXCEPT !.pc = "ended",
                                     !.reads = Append(@, frame_number[t])]
       ELSE viewer' = [viewer EXCEPT
                          !.pc = "key",
                          !.reads = Append(@, frame_number[t]),
                          !.displayed = Append(@, viewer.frame_num),
                          !.autosaved = IF viewer.save
                                        THEN Append(@, viewer.frame_num)
                                        ELSE @,
                          !.frame_num = @ + 1]
    /\ pc' = [pc EXCEPT ![t] = "idle"]
    /\ frame_number' = [frame_number EXCEPT ![t] = 0]
    /\ frame_data' = [frame_data EXCEPT ![t] = <<>>]
    /\ result' = [result EXCEPT ![t] = NoneTriple]
    /\ UNCHANGED <<batch, resVars, layout, stream, handleOf, pos, exc, kept,
                   frame_count, convVars, analysisVars>>

\* The call has raised: nothing in main() catches it.
PlayRaise(t) ==
    /\ viewer.pc = "head"
    /\ pc[t] = "raised"
    /\ viewer' = [viewer EXCEPT !.pc = "crashed", !.exc = exc[t],
                                !.reads = Append(@, frame_number[t])]
    /\ pc' = [pc EXCEPT ![t] = "idle"]
    /\ frame_number' = [frame_number EXCEPT ![t] = 0]
    /\ exc' = [exc EXCEPT ![t] = NoExc]
    /\ UNCHANGED <<batch, resVars, layout, stream, handleOf, pos, frame_data,
                   result, kept, frame_count, convVars, analysisVars>>

\* The loop condition holds and paused is True: straight on to waitKey.
PlayPaused(t) ==
    /\ viewer.pc = "head"
    /\ pc[t] = "idle"
    /\ viewer.frame_num
           < play_limit(frame_count.n, viewer.start, viewer.count)
    /\ viewer.paused
    /\ viewer' = [viewer EXCEPT !.pc = "key"]
    /\ UNCHANGED <<batch, resVars, layout, stream, handleOf, extractVars,
                   convVars, analysisVars>>

\* key = cv2.waitKey(100) & 0xFF and the if / elif chain on it
PlayKey(t, key) ==
    /\ viewer.pc = "key"
    /\ viewer' =
           IF key = "q" THEN [viewer EXCEPT !.pc = "ended"]
           ELSE IF key = "p"
                THEN [viewer EXCEPT !.pc = "head", !.paused = ~@]
           ELSE IF key = "s" /\ ~viewer.paused
                THEN [viewer EXCEPT
                         !.pc = "head",
                         !.saved = Append(@, frame_to_save(viewer.frame_num))]
           ELSE [viewer EXCEPT !.pc = "head"]
    /\ UNCHANGED <<batch, resVars, layout, stream, handleOf, extractVars,
                   convVars, analysisVars>>

\* The loop condition fails: the loop is over.
PlayEnd(t) ==
    /\ viewer.pc = "head"
    /\ pc[t] = "idle"
    /\ ~(viewer.frame_num
             < play_limit(frame_count.n, viewer.start, viewer.count))
    /\ viewer' = [viewer EXCEPT !.pc = "ended"]
    /\ UNCHANGED <<batch, resVars, layout, stream, handleOf, extractVars,
                   convVars, analysisVars>>

\* -------------------------------------------------- analysis of one frame
\* The scripts' main() hands the planes read_yuv_frame returned to the
\* analysis function the command line asks for.
AnalyzeFrameBasic ==
    /\ basic.state = "idle"
    /\ basic' = analyze_frame_basic(planes.y, planes.u, planes.v)
    /\ UNCHANGED <<loopVars, resVars, layout, extractVars, convVars, planes, planes2,
                   dist, validity, rgb_pixels, diff>>

AnalyzeYPlaneDistribution ==
    /\ dist.state = "idle"
    /\ dist' = analyze_y_plane_distribution(planes.y)
    /\ UNCHANGED <<loopVars, resVars, layout, extractVars, convVars, planes, planes2,
                   basic, validity, rgb_pixels, diff>>

CheckFrameValidity ==
    /\ validity.state = "idle"
    /\ validity' = check_frame_validity(planes.y, planes.u, planes.v)
    /\ UNCHANGED <<loopVars, resVars, layout, extractVars, convVars, planes, planes2,
                   basic, dist, rgb_pixels, diff>>

ConvertFrame ==
    /\ rgb_pixels = <<>>
    /\ rgb_pixels' = yuv420_to_rgb_manual(planes.y, planes.u, planes.v)
    /\ UNCHANGED <<loopVars, resVars, layout, extractVars, convVars, planes, planes2,
                   basic, dist, validity, diff>>

\* main() of yuv_analyzer.py with --analyze: the frame read_yuv_frame
\* returned, unless it is None, goes to analyze_frame_basic; then the
\* script ends.
AnalyzeRead(t) ==
    /\ pc[t] = "done"
    /\ ~result[t].none
    /\ basic' = analyze_frame_basic(result[t].y, result[t].u, result[t].v)
    /\ pc' = [pc EXCEPT ![t] = "analyzed"]
    /\ UNCHANGED <<loopVars, resVars, layout, stream, handleOf, pos, frame_number,
                   frame_data, result, exc, kept, frame_count, convVars,
                   planes, planes2, dist, validity, rgb_pixels, diff>>

Exit(t) ==
    /\ pc[t] = "analyzed"
    /\ pc' = [pc EXCEPT ![t] = "idle"]
    /\ frame_number' = [frame_number EXCEPT ![t] = 0]
    /\ frame_data' = [frame_data EXCEPT ![t] = <<>>]
    /\ result' = [result EXCEPT ![t] = NoneTriple]
    /\ basic' = NotAnalyzed
    /\ UNCHANGED <<loopVars, resVars, layout, stream, handleOf, pos, exc, kept,
                   frame_count, convVars, planes, planes2, dist, validity,
                   rgb_pixels, diff>>

\* compare_frames after its two read_yuv_frame calls: the first result is
\* the one held, the second the one just returned.
CompareFrames(t) ==
    /\ pc[t] = "done"
    /\ kept[t].has
    /\ diff' = compare_frames(kept[t].res, result[t])
    /\ pc' = [pc EXCEPT ![t] = "compared"]
    /\ UNCHANGED <<loopVars, resVars, layout, stream, handleOf, pos, frame_number,
                   frame_data, result, exc, kept, frame_count, convVars,
                   planes, planes2, basic, dist, validity, rgb_pixels>>

\* compare_frames returns and its locals are gone.
EndCompare(t) ==
    /\ pc[t] = "compared"
    /\ pc' = [pc EXCEPT ![t] = "idle"]
    /\ frame_number' = [frame_number EXCEPT ![t] = 0]
    /\ frame_data' = [frame_data EXCEPT ![t] = <<>>]
    /\ result' = [result EXCEPT ![t] = NoneTriple]
    /\ kept' = [kept EXCEPT ![t] = NothingKept]
    /\ diff' = NotCompared
    /\ UNCHANGED <<loopVars, resVars, layout, stream, handleOf, pos, exc,
                   frame_count, convVars, planes, planes2, basic, dist,
                   validity, rgb_pixels>>

\* The comparison of two frames held as planes.
ComparePlanes ==
    /\ diff.state = "idle"
    /\ diff' = compare_planes(planes, planes2)
    /\ UNCHANGED <<loopVars, resVars, layout, extractVars, convVars, planes, planes2,
                   basic, dist, validity, rgb_pixels>>

\* --------------------------------------------------- yuv420_to_rgb_simple
\* np.clip(x, 0, 255).astype(np.uint8) of a float32 value whose exact value
\* is micro / 10^6.  The float32 products and sums are within 10^-3 of the
\* exact value, so where the exact value is that close to an integer the
\* truncation may give either neighbour: the set of bytes it can give.
simple_channel(micro) ==
    LET lo == micro - 1000
        hi == micro + 1000
        byte(x) == IF x < 0 THEN 0
                   ELSE IF x > 255 * 1000000 THEN 255
                   ELSE x \div 1000000
    IN  byte(lo) .. byte(hi)

\* The float path for one pixel: r = y + 1.402 (v - 128),
\* g = y - 0.344136 (u - 128) - 0.714136 (v - 128), b = y + 1.772 (u - 128).
yuv420_to_rgb_simple(y, u, v) ==
    simple_channel(y * 1000000 + 1402000 * (v - 128))
        \X simple_channel(y * 1000000 - 344136 * (u - 128)
                              - 714136 * (v - 128))
        \X simple_channel(y * 1000000 + 1772000 * (u - 128))

\* One conversion of the sample triplet by the float path.
ConvertSimple ==
    /\ rgb_simple = <<>>
    /\ rgb_simple' \in yuv420_to_rgb_simple(pixel[1], pixel[2], pixel[3])
    /\ UNCHANGED <<loopVars, resVars, layout, extractVars, pixel, rgb, analysisVars>>

\* --------------------------------------------------------- specifications
\* The even widths and heights frames are extracted at.
Widths == {w \in 2..MaxWidth : w % 2 = 0}
Heights == {h \in 2..MaxHeight : h % 2 = 0}

\* Lengths of the trailing partial frame a stream ends with: none, one
\* byte, the Y plane alone, all but one byte.
Tails == {0, 1, Y_SIZE, FRAME_SIZE - 1}

OwnHandles == [t \in Threads |-> IF t = "t1" THEN "f1" ELSE "f2"]
OneHandle == [t \in Threads |-> "f1"]

\* Sample values around the corner values of BT.601 limited range and
\* around the quarter points of the byte range.
Samples ==
    {s \in 0..255 : \E k \in {0, 16, 64, 128, 192, 235, 255} :
                        s >= k - Radius /\ s <= k + Radius}

ExtractIdle ==
    /\ pos = [h \in Handles |-> 0]
    /\ pc = [t \in Threads |-> "idle"]
    /\ frame_number = [t \in Threads |-> 0]
    /\ frame_data = [t \in Threads |-> <<>>]
    /\ result = [t \in Threads |-> NoneTriple]
    /\ exc = [t \in Threads |-> NoExc]
    /\ kept = [t \in Threads |-> NothingKept]
    /\ frame_count = NotCounted

LoopIdle == batch = NotStarted /\ viewer = NotPlaying

AnalysisIdle ==
    /\ planes = NoFrame
    /\ planes2 = NoFrame
    /\ basic = NotAnalyzed
    /\ dist = NoDistribution
    /\ validity = NotValidated
    /\ rgb_pixels = <<>>
    /\ diff = NotCompared

LayoutIdle == layout = [m \in Scripts |-> NotLoaded]

ConvertIdle == pixel = <<16, 128, 128>> /\ rgb = <<>> /\ rgb_simple = <<>>

StreamInit ==
    /\ VIDEO_WIDTH \in Widths
    /\ VIDEO_HEIGHT \in Heights
    /\ \E n \in 0..MaxFrames, r \in Tails, seed \in Seeds :
           stream = Pattern(seed, n * FRAME_SIZE + r)

\* One caller extracting frames one call after the other from its handle.
Init ==
    /\ LoopIdle
    /\ StreamInit
    /\ handleOf = OwnHandles
    /\ ExtractIdle /\ LayoutIdle /\ ConvertIdle /\ AnalysisIdle

Caller == "t1"

Next ==
    \/ \E i \in Indices : Call(Caller, i)
    \/ Seek(Caller)
    \/ Read(Caller)
    \/ Return(Caller)
    \/ Finish(Caller)
    \/ Keep(Caller)
    \/ GetFrameCount

Spec == Init /\ [][Next]_vars

\* Two threads extracting at once, each from its own file object or both
\* from one.
InitThreads ==
    /\ LoopIdle
    /\ StreamInit
    /\ handleOf \in {OwnHandles, OneHandle}
    /\ ExtractIdle /\ LayoutIdle /\ ConvertIdle /\ AnalysisIdle

NextThreads ==
    \/ \E t \in Threads, i \in Indices : Call(t, i)
    \/ \E t \in Threads : Seek(t)
    \/ \E t \in Threads : Read(t)
    \/ \E t \in Threads : Return(t)
    \/ \E t \in Threads : Finish(t)

SpecThreads == InitThreads /\ [][NextThreads]_vars

\* The size computation applied to any width and height, valid or not.
InitLayout ==
    /\ LoopIdle
    /\ VIDEO_WIDTH \in 0..MaxDim
    /\ VIDEO_HEIGHT \in 0..MaxDim
    /\ stream = <<>>
    /\ handleOf = OwnHandles
    /\ ExtractIdle /\ LayoutIdle /\ ConvertIdle /\ AnalysisIdle

NextLayout == \E m \in Scripts : Load(m)

SpecLayout == InitLayout /\ [][NextLayout]_vars

\* The pixel conversion applied to sample triplets.
InitConvert ==
    /\ LoopIdle
    /\ VIDEO_WIDTH = 2
    /\ VIDEO_HEIGHT = 2
    /\ stream = <<>>
    /\ handleOf = OwnHandles
    /\ ExtractIdle /\ LayoutIdle
    /\ pixel \in Samples \X Samples \X Samples
    /\ rgb = <<>>
    /\ rgb_simple = <<>>
    /\ AnalysisIdle

NextConvert == Convert \/ ConvertSimple

SpecConvert == InitConvert /\ [][NextConvert]_vars

\* A plane of n samples: a ramp from base in steps of step that starts
\* over every m samples, as the test file's i % 256.
Ramp(n, base, step, m) ==
    [k \in 1..n |-> (base + step * ((k - 1) % m)) % 256]

\* Luma planes: constant, dark, bright, with 20, 21, 49, 50 or 64 values.
LumaPlanes ==
    {Ramp(Y_SIZE, base, step, m) :
        base \in {0, 9, 10, 100, 240}, step \in {1, 3}, m \in {1, 20, 21, 49, 50, 64}}

\* Chroma planes: neutral, constant, with 9 or 10 values.
ChromaPlanes ==
    {Ramp(UV_SIZE, base, 1, m) : base \in {0, 128}, m \in {1, 9, 10}}

\* The frames read_yuv_frame returns at the resolution.
Frames == [y : LumaPlanes, u : ChromaPlanes, v : {Ramp(UV_SIZE, 128, 1, m) : m \in {1, 10}}]

\* Resolutions of the analysed frames: every one up to the bounds (the
\* scripts check none) and the test file's 8x8.
Shapes == ((0..MaxWidth) \X (0..MaxHeight)) \cup {<<8, 8>>}

\* The analysis functions applied to one frame.
InitAnalyze ==
    /\ LoopIdle
    /\ \E shape \in Shapes :
           VIDEO_WIDTH = shape[1] /\ VIDEO_HEIGHT = shape[2]
    /\ stream = <<>>
    /\ handleOf = OwnHandles
    /\ ExtractIdle /\ LayoutIdle /\ ConvertIdle
    /\ planes \in Frames
    /\ planes2 = NoFrame
    /\ basic = NotAnalyzed
    /\ dist = NoDistribution
    /\ validity = NotValidated
    /\ rgb_pixels = <<>>
    /\ diff = NotCompared

NextAnalyze ==
    \/ AnalyzeFrameBasic
    \/ AnalyzeYPlaneDistribution
    \/ CheckFrameValidity
    \/ ConvertFrame

SpecAnalyze == InitAnalyze /\ [][NextAnalyze]_vars

\* The frame create_test_yuv_file writes: a luma gradient i % 256, neutral
\* chroma.
TestFrame ==
    Ramp(Y_SIZE, 0, 1, 256) \o Ramp(UV_SIZE, 128, 0, 1)
        \o Ramp(UV_SIZE, 128, 0, 1)

\* n test frames one after the other
TestStream(n) ==
    [k \in 1..(n * FRAME_SIZE) |-> TestFrame[((k - 1) % FRAME_SIZE) + 1]]

\* The analyzer run on a file of 8 test frames at the test's 8x8.
InitEndToEnd ==
    /\ LoopIdle
    /\ VIDEO_WIDTH = 8
    /\ VIDEO_HEIGHT = 8
    /\ stream = TestStream(8)
    /\ handleOf = OwnHandles
    /\ ExtractIdle /\ LayoutIdle /\ ConvertIdle /\ AnalysisIdle

NextEndToEnd ==
    \/ GetFrameCount
    \/ \E i \in -1..8 : Call(Caller, i)
    \/ Seek(Caller)
    \/ Read(Caller)
    \/ Return(Caller)
    \/ Finish(Caller)
    \/ AnalyzeRead(Caller)
    \/ Exit(Caller)

SpecEndToEnd == InitEndToEnd /\ [][NextEndToEnd]_vars

\* Frames to compare: luma planes 0, 1, 2, 30, 31, 50, 51 or 200 apart,
\* flat or with a ramp of 4 on top; chroma planes flat.
PairFrames(ny, nuv) ==
    [y : {Ramp(ny, base, step, 4) :
              base \in {0, 1, 2, 30, 31, 50, 51, 200}, step \in {0, 1}},
     u : {Ramp(nuv, base, 0, 1) : base \in {100, 128}},
     v : {Ramp(nuv, base, 0, 1) : base \in {128, 180}}]

\* The differences of compare_frames on two frames, the second of the
\* resolution or two rows higher.
InitCompare ==
    /\ LoopIdle
    /\ VIDEO_WIDTH \in Widths
    /\ VIDEO_HEIGHT \in Heights
    /\ stream = <<>>
    /\ handleOf = OwnHandles
    /\ ExtractIdle /\ LayoutIdle /\ ConvertIdle
    /\ planes \in PairFrames(Y_SIZE, UV_SIZE)
    /\ \E h2 \in {VIDEO_HEIGHT, VIDEO_HEIGHT + 2} :
           planes2 \in PairFrames(VIDEO_WIDTH * h2,
                                  (VIDEO_WIDTH \div 2) * (h2 \div 2))
    /\ basic = NotAnalyzed
    /\ dist = NoDistribution
    /\ validity = NotValidated
    /\ rgb_pixels = <<>>
    /\ diff = NotCompared

NextCompare == ComparePlanes

SpecCompare == InitCompare /\ [][NextCompare]_vars

\* One caller extracting frames and comparing two of them.
NextCompareFrames ==
    \/ Next
    \/ CompareFrames(Caller)
    \/ EndCompare(Caller)

SpecCompareFrames == Init /\ [][NextCompareFrames]_vars

\* yuv_batch_viewer on a 2x2 file of up to MaxFrames frames, whole or with
\* one byte more, with each command line, the output directory there or not.
InitBatch ==
    /\ VIDEO_WIDTH = 2
    /\ VIDEO_HEIGHT = 2
    /\ \E n \in 0..MaxFrames, r \in {0, 1} :
           stream = Pattern(0, n * FRAME_SIZE + r)
    /\ handleOf = OwnHandles
    /\ ExtractIdle /\ LayoutIdle /\ ConvertIdle /\ AnalysisIdle /\ LoopIdle

NextBatch ==
    \/ \E args \in BatchArgs, dir \in BOOLEAN : BatchStart(Caller, args, dir)
    \/ BatchSkip(Caller)
    \/ BatchRead(Caller)
    \/ Seek(Caller)
    \/ Read(Caller)
    \/ Return(Caller)
    \/ BatchProcess(Caller)
    \/ BatchRaise(Caller)
    \/ BatchSummary(Caller)

SpecBatch == InitBatch /\ [][NextBatch]_vars

\* yuv_viewer --play on a 2x2 file of up to MaxFrames + 2 frames, whole or
\* with one byte more, with each --start, --count and --save.
InitPlay ==
    /\ VIDEO_WIDTH = 2
    /\ VIDEO_HEIGHT = 2
    /\ \E n \in 0..(MaxFrames + 2), r \in {0, 1} :
           stream = Pattern(0, n * FRAME_SIZE + r)
    /\ handleOf = OwnHandles
    /\ ExtractIdle /\ LayoutIdle /\ ConvertIdle /\ AnalysisIdle /\ LoopIdle

NextPlay ==
    \/ \E start \in Indices, n \in 0..(MaxFrames + 1), save \in BOOLEAN :
           PlayStart(Caller, start, n, save)
    \/ PlayRead(Caller)
    \/ Seek(Caller)
    \/ Read(Caller)
    \/ Return(Caller)
    \/ PlayShow(Caller)
    \/ PlayRaise(Caller)
    \/ PlayPaused(Caller)
    \/ \E key \in Keys : PlayKey(Caller, key)
    \/ PlayEnd(Caller)

SpecPlay == InitPlay /\ [][NextPlay]_vars

\* ------------------------------------------------------------ properties
\* C1: whenever read_yuv_frame returns planes for frame index i, then
\* i >= 0, the bytes it read are bytes [i*FRAME_SIZE, (i+1)*FRAME_SIZE) of
\* the stream, Y is the first width*height of them, U the next
\* (width/2)*(height/2), V the last (width/2)*(height/2), and Y, U, V put
\* end to end are exactly the bytes read.
C1_PlanesAreTheFrameBytes ==
    \A t \in Threads :
        (pc[t] = "done" /\ ~result[t].none) =>
            LET i == frame_number[t]
                r == result[t]
                base == i * FRAME_SIZE
                ny == VIDEO_WIDTH * VIDEO_HEIGHT
            IN  /\ i >= 0
                /\ base + FRAME_SIZE <= Len(stream)
                /\ Len(frame_data[t]) = FRAME_SIZE
                /\ \A k \in 1..FRAME_SIZE : frame_data[t][k] = stream[base + k]
                /\ Len(r.y) = ny
                /\ 4 * Len(r.u) = ny
                /\ Len(r.v) = Len(r.u)
                /\ \A k \in 1..Len(r.y) : r.y[k] = stream[base + k]
                /\ \A k \in 1..Len(r.u) : r.u[k] = stream[base + ny + k]
                /\ \A k \in 1..Len(r.v) :
                       r.v[k] = stream[base + ny + Len(r.u) + k]
                /\ r.y \o r.u \o r.v = frame_data[t]

\* C1 witness: planes were returned for a frame that does not start the
\* stream.
C1_Witness ==
    \E t \in Threads :
        pc[t] = "done" /\ ~result[t].none /\ frame_number[t] >= 1

\* C2: for every valid resolution (width and height even and positive) the
\* frame size a script computes is width*height + 2*(width/2)*(height/2),
\* the halves being exact, and every script that computes it gets the same
\* value.
C2_FrameSizeFormula ==
    ValidResolution(VIDEO_WIDTH, VIDEO_HEIGHT) =>
        \A m \in Scripts :
            layout[m].loaded =>
                /\ \E hw \in 1..VIDEO_WIDTH, hh \in 1..VIDEO_HEIGHT :
                       /\ 2 * hw = VIDEO_WIDTH
                       /\ 2 * hh = VIDEO_HEIGHT
                       /\ layout[m].frame_size =
                              VIDEO_WIDTH * VIDEO_HEIGHT + 2 * hw * hh
                /\ \A m2 \in Scripts :
                       layout[m2].loaded =>
                           layout[m2].frame_size = layout[m].frame_size

\* C2 witness: both scripts computed the sizes of a valid, non-square
\* resolution.
C2_Witness ==
    /\ ValidResolution(VIDEO_WIDTH, VIDEO_HEIGHT)
    /\ VIDEO_WIDTH # VIDEO_HEIGHT
    /\ \A m \in Scripts : layout[m].loaded

\* C3: an extraction that read zero bytes and an extraction that read some
\* but fewer than FRAME_SIZE bytes give different results (EndOfStream
\* against ShortRead), and two short reads of different byte counts give
\* different results (ShortRead carries the count).
C3_IncompleteReadsDistinguished ==
    \A a, b \in Threads :
        (/\ pc[a] = "done" /\ pc[b] = "done"
         /\ Len(frame_data[a]) < FRAME_SIZE
         /\ Len(frame_data[b]) < FRAME_SIZE
         /\ Len(frame_data[b]) > 0
         /\ Len(frame_data[a]) # Len(frame_data[b]))
            => result[a] # result[b]

\* C4: an extraction that read fewer than FRAME_SIZE bytes returns no plane
\* data at all, and planes that are returned have exactly Y_SIZE, UV_SIZE
\* and UV_SIZE bytes, which are FRAME_SIZE consecutive bytes of the stream.
C4_NoZeroPadding ==
    \A t \in Threads :
        pc[t] = "done" =>
            LET r == result[t]
                all == r.y \o r.u \o r.v
            IN  /\ Len(frame_data[t]) < FRAME_SIZE =>
                       /\ r.none
                       /\ r.y = <<>> /\ r.u = <<>> /\ r.v = <<>>
                /\ ~r.none =>
                       /\ Len(r.y) = Y_SIZE
                       /\ Len(r.u) = UV_SIZE
                       /\ Len(r.v) = UV_SIZE
                       /\ \E off \in 0..Len(stream) :
                              /\ off + FRAME_SIZE <= Len(stream)
                              /\ \A k \in 1..FRAME_SIZE :
                                     all[k] = stream[off + k]

\* C4 witness: an extraction returned after a short, non-empty read.
C4_Witness ==
    \E t \in Threads :
        /\ pc[t] = "done"
        /\ Len(frame_data[t]) > 0
        /\ Len(frame_data[t]) < FRAME_SIZE

C5_State ==
    \A t \in Threads :
        /\ frame_number[t] < 0 => pc[t] \in {"seek", "raised"}
        /\ pc[t] = "raised" =>
               /\ frame_number[t] < 0
               /\ exc[t] = EINVAL
               /\ frame_data[t] = <<>>
               /\ result[t].none

C5_Step ==
    \A t \in Threads :
        (pc[t] = "seek" /\ frame_number[t] < 0 /\ pc'[t] # "seek") =>
            /\ pc'[t] = "raised"
            /\ exc'[t] = EINVAL
            /\ pos' = pos
            /\ frame_data' = frame_data
            /\ result' = result

\* C5: a call with a negative frame index ends in the seek, which raises
\* OSError(EINVAL): the cursor does not move, nothing is read, nothing is
\* returned, and the call never gets to the read or to a return; no other
\* call raises.
C5_NegativeIndexRaises == [](C5_State) /\ [][C5_Step]_vars

\* C5 witness: a call with a negative index has raised.
C5_Witness ==
    \E t \in Threads : pc[t] = "raised" /\ frame_number[t] < 0

\* C6: the frame count n of a stream satisfies
\* n*FRAME_SIZE <= size < (n+1)*FRAME_SIZE: it is floor(size / FRAME_SIZE),
\* a trailing partial frame is not counted.
C6_FrameCountIsFloor ==
    frame_count.known =>
        /\ frame_count.n >= 0
        /\ frame_count.n * FRAME_SIZE <= Len(stream)
        /\ Len(stream) < (frame_count.n + 1) * FRAME_SIZE

\* C6 witness: the frames of a stream with at least one complete frame and
\* a trailing partial frame were counted.
C6_Witness ==
    /\ frame_count.known
    /\ frame_count.n >= 1
    /\ Len(stream) % FRAME_SIZE # 0

\* C7: when a caller that still holds the result of an earlier extraction
\* of index i extracts i again from the same handle, whatever it extracted
\* in between and wherever the cursor was left, the new result is identical
\* to the one it holds.
C7_SameIndexSameResult ==
    \A t \in Threads :
        (pc[t] = "done" /\ kept[t].has /\ kept[t].idx = frame_number[t]) =>
            result[t] = kept[t].res

\* C7 witness: a second extraction of a held frame returned planes.
C7_Witness ==
    \E t \in Threads :
        /\ pc[t] = "done" /\ kept[t].has /\ kept[t].idx = frame_number[t]
        /\ ~result[t].none
        /\ frame_number[t] >= 1

\* What read_yuv_frame(f, i) gives when nothing else runs, on a freshly
\* opened file object.
RunAlone(i) ==
    LET p == seek(0, i * FRAME_SIZE)
    IN  IF p < 0
        THEN [raised |-> TRUE, res |-> NoneTriple]
        ELSE [raised |-> FALSE,
              res |-> SplitPlanes(read(stream, p, FRAME_SIZE))]

\* C8: when every thread has its own file object, then under every
\* interleaving of the threads' seek and read steps each extraction ends as
\* it ends when run alone: with the same planes (or None), or raising.
C8_OwnHandlesRunAsAlone ==
    handleOf = OwnHandles =>
        \A t \in Threads :
            /\ pc[t] = "done" =>
                   /\ ~RunAlone(frame_number[t]).raised
                   /\ result[t] = RunAlone(frame_number[t]).res
            /\ pc[t] = "raised" => RunAlone(frame_number[t]).raised
            /\ pc[t] = "check" =>
                   frame_data[t] =
                       read(stream, frame_number[t] * FRAME_SIZE, FRAME_SIZE)

\* C8 witness: with own file objects, one thread has returned the planes of
\* one frame while the other is between its seek and its read of another.
C8_Witness ==
    /\ handleOf = OwnHandles
    /\ pc["t1"] = "done" /\ ~result["t1"].none
    /\ pc["t2"] = "read" /\ frame_number["t2"] # frame_number["t1"]

\* C9: no script ever holds computed sizes for a resolution whose width or
\* height is zero or odd (the computation fails with InvalidResolution).
C9_InvalidResolutionRejected ==
    \A m \in Scripts :
        layout[m].loaded => ValidResolution(VIDEO_WIDTH, VIDEO_HEIGHT)

\* channel ch is clamp8(floor(s / 256))
IsClampedFloor(s, ch) ==
    IF s < 0 THEN ch = 0
    ELSE IF s >= 256 * 256 THEN ch = 255
    ELSE 256 * ch <= s /\ s < 256 * (ch + 1)

\* C10: for every sample triplet the conversion returns, with c = y-16,
\* d = u-128, e = v-128, r = clamp8(floor((298c + 409e + 128)/256)),
\* g = clamp8(floor((298c - 100d - 208e + 128)/256)) and
\* b = clamp8(floor((298c + 516d + 128)/256)); every channel is in 0..255
\* and the call always returns.
C10_IntegerConversion ==
    /\ rgb = <<>> => ENABLED Convert
    /\ rgb # <<>> =>
           LET c == pixel[1] - 16
               d == pixel[2] - 128
               e == pixel[3] - 128
           IN  /\ Len(rgb) = 3
               /\ \A k \in 1..3 : rgb[k] \in 0..255
               /\ IsClampedFloor(298 * c + 409 * e + 128, rgb[1])
               /\ IsClampedFloor(298 * c - 100 * d - 208 * e + 128, rgb[2])
               /\ IsClampedFloor(298 * c + 516 * d + 128, rgb[3])

\* C10 witness: a triplet was converted whose red sum is negative and not a
\* multiple of 256 (floor and truncation differ) and whose blue sum is
\* above the range (the clamp acts).
C10_Witness ==
    /\ rgb # <<>>
    /\ LET c == pixel[1] - 16
           d == pixel[2] - 128
           e == pixel[3] - 128
       IN  /\ 298 * c + 409 * e + 128 < 0
           /\ (298 * c + 409 * e + 128) % 256 # 0
           /\ 298 * c + 516 * d + 128 >= 256 * 256

\* C11: whenever both conversion paths have converted the same sample
\* triplet, the integer result and the floating-point result differ by at
\* most 2 in each of the r, g and b channels.
C11_PathsAgreeWithin2 ==
    (rgb # <<>> /\ rgb_simple # <<>>) =>
        \A k \in 1..3 : absdiff(rgb[k], rgb_simple[k]) <= 2

\* C13: the integer conversion maps reference black (16,128,128) to
\* (0,0,0) and reference white (235,128,128) to (255,255,255).
C13_ReferencePoints ==
    /\ (pixel = <<16, 128, 128>> /\ rgb # <<>>) => rgb = <<0, 0, 0>>
    /\ (pixel = <<235, 128, 128>> /\ rgb # <<>>) => rgb = <<255, 255, 255>>

\* C13 witness: reference white has been converted by the integer path.
C13_Witness == pixel = <<235, 128, 128>> /\ rgb # <<>>

\* C12: the converted frame has width*height pixels in row-major order, and
\* the pixel at (row, col) is the pixel conversion of Y[row*width + col]
\* with the U and V samples at index (row div 2)*(width div 2) + (col div 2).
C12_FrameConversion ==
    rgb_pixels # <<>> =>
        /\ Len(rgb_pixels) = VIDEO_WIDTH * VIDEO_HEIGHT
        /\ \A row \in 0..(VIDEO_HEIGHT - 1), col \in 0..(VIDEO_WIDTH - 1) :
               LET c == (row \div 2) * (VIDEO_WIDTH \div 2) + (col \div 2)
                   p == row * VIDEO_WIDTH + col
               IN  c < Len(planes.u) =>
                       rgb_pixels[p + 1] =
                           yuv_to_rgb(planes.y[p + 1], planes.u[c + 1],
                                      planes.v[c + 1])

\* C12 witness: a 4x4 frame, two rows of two chroma blocks whose U samples
\* differ, has been converted and its first and third rows differ.
C12_Witness ==
    /\ rgb_pixels # <<>>
    /\ VIDEO_WIDTH = 4 /\ VIDEO_HEIGHT = 4
    /\ planes.u[1] # planes.u[2] /\ planes.u[1] # planes.u[3]
    /\ rgb_pixels[1] # rgb_pixels[9]

\* C14: the histogram of a non-empty plane has 16 buckets, bucket b counts
\* the samples s with 16b <= s <= 16b + 15 (each sample once, in bucket
\* min(s div 16, 15)), and the 16 counts sum to the number of samples.
C14_Histogram ==
    /\ (Len(planes.y) > 0 /\ dist.state # "idle") => dist.state = "ok"
    /\ dist.state = "ok" =>
           /\ DOMAIN dist.bins = 0..15
           /\ \A b \in 0..15 :
                  dist.bins[b] =
                      Cardinality({k \in 1..Len(planes.y) :
                                       /\ 16 * b <= planes.y[k]
                                       /\ planes.y[k] <= 16 * b + 15})
           /\ sum([k \in 1..16 |-> dist.bins[k - 1]]) = Len(planes.y)

\* C14 witness: a histogram was made of a plane with samples in the last
\* bucket and in the first one.
C14_Witness ==
    /\ dist.state = "ok"
    /\ dist.bins[15] > 0
    /\ dist.bins[0] > 0
    /\ dist.bins[15] + dist.bins[0] < Len(planes.y)

\* The finding is among the findings of a list.
Emitted(finding, findings) == \E k \in 1..Len(findings) : findings[k] = finding

\* The findings of a list that are about the plane.
About(p, findings) == {k \in 1..Len(findings) : findings[k].plane = p}

IsConstantPlane(p) == Len(p) > 0 /\ \A k \in 1..Len(p) : p[k] = p[1]

C17_EmptyPlaneRejected ==
    \A p \in {"y", "u", "v"} :
        Len(planes[p]) = 0 =>
            /\ basic.state # "idle" =>
                   /\ basic.state = "raised"
                   /\ basic.exc = "ValueError"
                   /\ ~basic[p].has
                   /\ basic.issues = <<>>
            /\ validity.state # "idle" =>
                   /\ validity.state = "raised"
                   /\ validity.exc \in {"ValueError", "ZeroDivisionError"}
                   /\ validity.issues = <<>>
                   /\ validity.warnings = <<>>
            /\ (p = "y" /\ dist.state # "idle") =>
                   /\ dist.state = "raised"
                   /\ dist.exc = "ZeroDivisionError"
                   /\ dist.total_pixels = 0
                   /\ dist.warnings = <<>>

\* C17 witness: the three analyses have run on a 1x1 frame, which has one
\* luma sample and no chroma samples.
C17_Witness ==
    /\ basic.state = "raised" /\ validity.state = "raised"
    /\ dist.state # "idle"
    /\ Len(planes.u) = 0
    /\ Len(planes.y) = 1

\* C16: at 8x8, a stream of 8 frames with Y = 0..63 and U, V constant 128
\* has frame count 8, every frame index 0..7 is read, and the statistics of
\* the Y plane of any frame are min = 0, max = 63, mean = 31.5 exactly and
\* uniqueCount = 64.
C16_EndToEnd ==
    /\ frame_count.known => frame_count.n = 8
    /\ (pc[Caller] = "done" /\ frame_number[Caller] \in 0..7) =>
           /\ ~result[Caller].none
           /\ ENABLED AnalyzeRead(Caller)
    /\ pc[Caller] = "analyzed" =>
           /\ basic.state = "ok"
           /\ basic.y.min = 0
           /\ basic.y.max = 63
           /\ 2 * basic.y.avg.num = 63 * basic.y.avg.den
           /\ basic.y.unique = 64

\* C16 witness: the frames were counted and the last frame, index 7, has
\* been read and analysed.
C16_Witness ==
    /\ frame_count.known
    /\ pc[Caller] = "analyzed"
    /\ frame_number[Caller] = 7

AbsDiffs(a, b) == [k \in 1..Len(a) |-> IF a[k] >= b[k] THEN a[k] - b[k]
                                       ELSE b[k] - a[k]]

\* d is the statistics of the differences ds: their mean as sum over count
\* and their largest.
IsMeanAndMax(d, ds) ==
    /\ d.avg.den = Len(ds)
    /\ d.avg.num = sum(ds)
    /\ \E k \in 1..Len(ds) : ds[k] = d.max
    /\ \A k \in 1..Len(ds) : ds[k] <= d.max

\* C19: for two planes A and B of one shape, the mean difference is the sum
\* of |A[i] - B[i]| over the sample count, the maximum difference is the
\* largest |A[i] - B[i]|, and the outlier count is the number of samples
\* with |A[i] - B[i]| > 50, a difference of exactly 50 not counted.
C19_DiffStatistics ==
    (Len(planes.y) = Len(planes2.y) /\ diff.state # "idle") =>
        /\ diff.state = "ok"
        /\ IsMeanAndMax(diff.y, AbsDiffs(planes.y, planes2.y))
        /\ IsMeanAndMax(diff.u, AbsDiffs(planes.u, planes2.u))
        /\ IsMeanAndMax(diff.v, AbsDiffs(planes.v, planes2.v))
        /\ diff.total_pixels = Len(planes.y)
        /\ diff.y_big_diffs =
               Cardinality({k \in 1..Len(planes.y) :
                                AbsDiffs(planes.y, planes2.y)[k] >= 51})

\* C19 witness: two frames of one shape were compared whose luma
\* differences are 50 at some samples and above 50 at others.
C19_Witness ==
    /\ diff.state = "ok"
    /\ Len(planes.y) = Len(planes2.y)
    /\ \E k \in 1..Len(planes.y) : AbsDiffs(planes.y, planes2.y)[k] = 50
    /\ diff.y_big_diffs > 0
    /\ diff.y_big_diffs < diff.total_pixels

\* C20: comparing a frame with itself, the same frame index extracted
\* twice from the same stream, gives mean difference 0, maximum difference
\* 0 on the Y, U and V planes and outlier count 0.
C20_SelfComparisonIsZero ==
    (/\ pc[Caller] = "compared"
     /\ kept[Caller].idx = frame_number[Caller]
     /\ ~kept[Caller].res.none) =>
        /\ diff.state = "ok"
        /\ \A p \in {"y", "u", "v"} :
               /\ diff[p].avg.num = 0
               /\ diff[p].avg.den = Len(kept[Caller].res[p])
               /\ diff[p].max = 0
        /\ diff.y_big_diffs = 0
        /\ diff.total_pixels = VIDEO_WIDTH * VIDEO_HEIGHT

\* C20 witness: frame 1 was extracted, held, extracted again after the
\* cursor had moved on, and compared with the one held.
C20_Witness ==
    /\ pc[Caller] = "compared"
    /\ kept[Caller].idx = 1
    /\ frame_number[Caller] = 1
    /\ diff.state = "ok"

\* The spread of a non-empty plane: largest sample minus smallest.
Spread(p) ==
    LET hi == CHOOSE a \in Values(p) : \A b \in Values(p) : b <= a
        lo == CHOOSE a \in Values(p) : \A b \in Values(p) : a <= b
    IN  hi - lo

Distinct(p) == Cardinality({p[k] : k \in 1..Len(p)})

\* C21 as claimed: in both per-frame checks the low-contrast finding is
\* emitted iff Y.max - Y.min < 20, the low-luminance-diversity finding iff
\* Y.uniqueCount < 50, the low-chroma-diversity findings iff the plane's
\* uniqueCount < 10, and none of them is a critical finding.
C21_ThresholdsAsClaimed ==
    /\ basic.state = "ok" =>
           /\ Emitted(Finding("y", "low contrast"), basic.issues)
                  <=> Spread(planes.y) < 20
           /\ Emitted(Finding("y", "few unique"), basic.issues)
                  <=> Distinct(planes.y) < 50
           /\ \A p \in {"u", "v"} :
                  Emitted(Finding(p, "few unique"), basic.issues)
                      <=> Distinct(planes[p]) < 10
    /\ validity.state = "ok" =>
           /\ Emitted(Finding("y", "low range"),
                      validity.issues \o validity.warnings)
                  <=> Spread(planes.y) < 20
           /\ ~Emitted(Finding("y", "low range"), validity.issues)
           /\ Emitted(Finding("y", "low diversity"), validity.warnings)
                  <=> Distinct(planes.y) < 50
           /\ \A p \in {"u", "v"} :
                  Emitted(Finding(p, "low diversity"), validity.warnings)
                      <=> Distinct(planes[p]) < 10

\* C21 amended: analyze_frame_basic lists the low-contrast finding iff
\* Y.max - Y.min < 20, the luminance-diversity finding iff Y.uniqueCount
\* < 50 and the U (V) diversity finding iff U (V) uniqueCount < 10, all as
\* potential issues without severity; check_frame_validity emits the
\* diversity findings at the same thresholds as warnings, and its low-range
\* finding iff Y.max - Y.min < 30, as a critical issue.
C21_ThresholdRules ==
    /\ basic.state = "ok" =>
           /\ Emitted(Finding("y", "low contrast"), basic.issues)
                  <=> Spread(planes.y) < 20
           /\ Emitted(Finding("y", "few unique"), basic.issues)
                  <=> Distinct(planes.y) < 50
           /\ \A p \in {"u", "v"} :
                  Emitted(Finding(p, "few unique"), basic.issues)
                      <=> Distinct(planes[p]) < 10
    /\ validity.state = "ok" =>
           /\ Emitted(Finding("y", "low range"), validity.issues)
                  <=> Spread(planes.y) < 30
           /\ ~Emitted(Finding("y", "low range"), validity.warnings)
           /\ Emitted(Finding("y", "low diversity"), validity.warnings)
                  <=> Distinct(planes.y) < 50
           /\ \A p \in {"u", "v"} :
                  /\ Emitted(Finding(p, "low diversity"), validity.warnings)
                         <=> Distinct(planes[p]) < 10
                  /\ ~Emitted(Finding(p, "low diversity"), validity.issues)
           /\ ~Emitted(Finding("y", "low diversity"), validity.issues)

\* C21 witness: both checks have run on a frame whose luma spread is
\* exactly 20 and whose U plane has exactly 10 values.
C21_Witness ==
    /\ basic.state = "ok" /\ validity.state = "ok"
    /\ Spread(planes.y) = 20
    /\ Distinct(planes.u) = 10

\* The number of samples of the plane that are exactly 0.
Zeros(p) == Cardinality({k \in 1..Len(p) : p[k] = 0})

\* C22: the excess-pure-black warning is emitted iff the number of Y
\* samples that are exactly 0 is greater than 0.10 of the Y sample count;
\* samples of value 1..15 do not count towards it.
C22_PureBlackCountsZeros ==
    /\ dist.state = "ok" =>
           (Emitted(Finding("y", "pure black"), dist.warnings)
                <=> 10 * Zeros(planes.y) > Len(planes.y))
    /\ validity.state = "ok" =>
           (Emitted(Finding("y", "many zeros"), validity.warnings)
                <=> 10 * Zeros(planes.y) > Len(planes.y))

\* C23: a comparison says 'frames very different' iff the mean absolute Y
\* difference is above 30 and 'frames nearly identical' iff it is below 2,
\* never both, and neither for a mean from 2 to 30.
C23_ComparisonVerdict ==
    diff.state = "ok" =>
        LET num == diff.y.avg.num
            den == diff.y.avg.den
        IN  /\ den > 0
            /\ diff.verdict \in {"very different", "very similar", "normal"}
            /\ diff.verdict = "very different" <=> num > 30 * den
            /\ diff.verdict = "very similar" <=> num < 2 * den
            /\ (2 * den <= num /\ num <= 30 * den) => diff.verdict = "normal"
            /\ Len(planes.y) = Len(planes2.y) =>
                   num = sum(AbsDiffs(planes.y, planes2.y))

\* C23 witness: two frames whose mean Y difference is exactly 30 were
\* compared.
C23_Witness ==
    /\ diff.state = "ok"
    /\ diff.y.avg.num = 30 * diff.y.avg.den
    /\ Len(planes.y) = Len(planes2.y)

\* The rules of analyze_frame_basic in the order the code tests them.
BasicRules ==
    <<Finding("y", "low contrast"), Finding("y", "few unique"),
      Finding("u", "few unique"), Finding("v", "few unique"),
      Finding("y", "constant"), Finding("u", "constant"),
      Finding("v", "constant")>>

\* The rules of check_frame_validity in the order the code tests them.
ValidityRules ==
    <<Finding("y", "low range"), Finding("y", "low diversity"),
      Finding("y", "many zeros"), Finding("u", "low diversity"),
      Finding("v", "low diversity"), Finding("y", "line endings")>>

\* The findings come in the order of the rules, each at most once.
IsInOrder(findings, rules) ==
    \A i, j \in 1..Len(findings) :
        i < j => \E a, b \in 1..Len(rules) :
                     a < b /\ rules[a] = findings[i] /\ rules[b] = findings[j]

\* The condition of each rule, from the planes.
RuleHolds(rule) ==
    LET p == planes[rule.plane]
    IN  CASE rule.kind = "low contrast" -> Spread(p) < 20
          [] rule.kind = "few unique" ->
                 Distinct(p) < (IF rule.plane = "y" THEN 50 ELSE 10)
          [] rule.kind = "constant" -> IsConstantPlane(p)
          [] rule.kind = "low range" -> Spread(p) < 30
          [] rule.kind = "low diversity" ->
                 Distinct(p) < (IF rule.plane = "y" THEN 50 ELSE 10)
          [] rule.kind = "many zeros" -> 10 * Zeros(p) > Len(p)
          [] rule.kind = "line endings" ->
                 LET rows == {r \in 0..9 : r < VIDEO_HEIGHT
                                  /\ r * VIDEO_WIDTH + VIDEO_WIDTH <= Len(p)}
                 IN  /\ Cardinality(rows) > 5
                     /\ \A r1, r2 \in rows :
                            p[r1 * VIDEO_WIDTH + VIDEO_WIDTH]
                                = p[r2 * VIDEO_WIDTH + VIDEO_WIDTH]

\* Every rule whose condition holds has its finding among the findings, and
\* no other finding is there.
AllRulesFire(findings, rules) ==
    /\ \A a \in 1..Len(rules) : Emitted(rules[a], findings) <=> RuleHolds(rules[a])
    /\ \A k \in 1..Len(findings) : \E a \in 1..Len(rules) : rules[a] = findings[k]

\* C24 as claimed: each check evaluates every rule on every frame (every
\* rule whose condition holds contributes a finding) and the findings come
\* out in rule order, not regrouped by severity: no warning of an earlier
\* rule after a critical finding of a later rule.
C24_RuleOrderAsClaimed ==
    /\ basic.state = "ok" =>
           /\ AllRulesFire(basic.issues, BasicRules)
           /\ IsInOrder(basic.issues, BasicRules)
    /\ validity.state = "ok" =>
           /\ AllRulesFire(reported(validity), ValidityRules)
           /\ IsInOrder(reported(validity), ValidityRules)

\* C24 amended: each check evaluates every rule on every frame; the
\* findings of analyze_frame_basic come out in rule order in one list;
\* check_frame_validity reports its critical issues first, in rule order,
\* and then its warnings, in rule order.
C24_RulesAllFireInOrder ==
    /\ basic.state = "ok" =>
           /\ AllRulesFire(basic.issues, BasicRules)
           /\ IsInOrder(basic.issues, BasicRules)
    /\ validity.state = "ok" =>
           /\ AllRulesFire(reported(validity), ValidityRules)
           /\ IsInOrder(validity.issues, ValidityRules)
           /\ IsInOrder(validity.warnings, ValidityRules)
           /\ \A k \in 1..Len(reported(validity)) :
                  reported(validity)[k].kind \in {"low range", "line endings"}
                      <=> k <= Len(validity.issues)

\* C24 witness: both checks have run on a frame for which the basic check
\* has at least five findings and the validity check has both of its
\* critical issues and a warning.
C24_Witness ==
    /\ basic.state = "ok" /\ Len(basic.issues) >= 5
    /\ validity.state = "ok"
    /\ Len(validity.issues) = 2
    /\ Len(validity.warnings) >= 1

\* C25: over an unchanging file and for every index i >= 0,
\* read_yuv_frame returns planes iff i < get_frame_count(file), the file
\* size divided by FRAME_SIZE rounded down; so a non-negative index below
\* the frame count never gets None from the read.
C25_PlanesIffBelowFrameCount ==
    (pc[Caller] = "done" /\ frame_number[Caller] >= 0) =>
        /\ ~result[Caller].none
               <=> frame_number[Caller] < Len(stream) \div FRAME_SIZE
        /\ frame_count.known =>
               (~result[Caller].none
                    <=> frame_number[Caller] < frame_count.n)

\* C25 witness: on a file that ends in a partial frame the frames were
\* counted, and the read of the index equal to the count returned None.
C25_Witness ==
    /\ frame_count.known /\ frame_count.n > 0
    /\ Len(stream) % FRAME_SIZE # 0
    /\ pc[Caller] = "done"
    /\ frame_number[Caller] = frame_count.n
    /\ result[Caller].none

\* C26: seek and read are two steps on the handle.  An extraction returns
\* something other than what it returns when run alone only when the two
\* extractions share one handle, and then what it read are the bytes at a
\* cursor position that is not its own i*FRAME_SIZE; with a handle of its
\* own every extraction is correct.
C26_WrongOnlyOnSharedHandle ==
    \A t \in Threads :
        (pc[t] = "done" /\ result[t] # RunAlone(frame_number[t]).res) =>
            /\ handleOf = OneHandle
            /\ \E q \in 0..(Len(stream) + FRAME_SIZE) :
                   /\ q # frame_number[t] * FRAME_SIZE
                   /\ frame_data[t] = read(stream, q, FRAME_SIZE)

\* C26 witness: on a shared handle one extraction returned the planes of
\* another frame than the one asked for, and the other reported a failed
\* read for an index that exists.
C26_Witness ==
    /\ handleOf = OneHandle
    /\ pc["t1"] = "done" /\ ~result["t1"].none
    /\ result["t1"] # RunAlone(frame_number["t1"]).res
    /\ pc["t2"] = "done" /\ result["t2"].none
    /\ ~RunAlone(frame_number["t2"]).res.none


\* The requested frames that are in the file, in request order.
InFile(frames) == SelectSeq(frames, LAMBDA n : 0 <= n /\ n < frame_count.n)

\* C27: once a run of the batch driver has ended, every requested frame
\* with an index in [0, frame_count) was saved, in request order and once,
\* whatever came before it in the list; and a summary that was written
\* lists exactly the saved frames and has their number as 'Processed
\* frames'.
C27_BatchSavesEveryFrameInFile ==
    batch.pc \in {"complete", "crashed"} =>
        /\ batch.saved_files = InFile(batch.frames_to_process)
        /\ batch.summary_file.written =>
               /\ batch.summary_file.processed = Len(batch.saved_files)
               /\ batch.summary_file.lines = batch.saved_files


\* C28: the findings of analyze_frame_basic are nested.  A frame reported
\* with a constant Y plane is also reported with low luminance contrast and
\* with very few unique luminance values; a frame reported with low
\* luminance contrast is also reported with very few unique luminance
\* values; a constant U (V) plane is also reported with very few unique U
\* (V) values.
C28_FindingsNested ==
    basic.state = "ok" =>
        /\ Emitted(Finding("y", "constant"), basic.issues) =>
               /\ Emitted(Finding("y", "low contrast"), basic.issues)
               /\ Emitted(Finding("y", "few unique"), basic.issues)
        /\ Emitted(Finding("y", "low contrast"), basic.issues) =>
               Emitted(Finding("y", "few unique"), basic.issues)
        /\ \A c \in {"u", "v"} :
               Emitted(Finding(c, "constant"), basic.issues) =>
                   Emitted(Finding(c, "few unique"), basic.issues)

\* An analysed 8x8 frame with a constant Y plane and a constant U plane.
C28_Witness ==
    /\ basic.state = "ok"
    /\ Len(planes.y) = 64
    /\ IsConstantPlane(planes.y)
    /\ IsConstantPlane(planes.u)
    /\ Emitted(Finding("y", "constant"), basic.issues)
    /\ Emitted(Finding("u", "constant"), basic.issues)


\* C29: the statistics compare_frames computes for two frames of one
\* shape fit together.  On each plane 0 <= mean difference <= maximum
\* difference <= 255; the count of Y differences above 50 is between 0 and
\* the number of Y samples, and is positive iff the maximum Y difference is
\* above 50; the verdict for a mean above 30 is given only when the maximum
\* Y difference is above 30.
C29_DiffStatisticsConsistent ==
    (diff.state = "ok" /\ Len(planes.y) = Len(planes2.y)) =>
        /\ \A p \in {"y", "u", "v"} :
               /\ diff[p].avg.den > 0
               /\ 0 <= diff[p].avg.num
               /\ diff[p].avg.num <= diff[p].max * diff[p].avg.den
               /\ diff[p].max <= 255
        /\ 0 <= diff.y_big_diffs
        /\ diff.y_big_diffs <= diff.total_pixels
        /\ diff.total_pixels = Len(planes.y)
        /\ diff.y_big_diffs > 0 <=> diff.y.max > 50
        /\ diff.verdict = "very different" => diff.y.max > 30

\* Two frames of one shape were compared whose largest Y difference is
\* above 50 at some samples only, with a mean above 30.
C29_Witness ==
    /\ diff.state = "ok"
    /\ Len(planes.y) = Len(planes2.y)
    /\ diff.y.max > 50
    /\ diff.y_big_diffs > 0
    /\ diff.y_big_diffs < diff.total_pixels
    /\ diff.verdict = "very different"
    /\ diff.y.avg.num < diff.y.max * diff.y.avg.den


\* The indices the play loop may read: below the frame count and below
\* start + count.
BelowLimit(n) == n < frame_count.n /\ n < viewer.start + viewer.count

\* What holds of the play loop at every moment: the frames shown so far
\* are start, start + 1, ... in this order, and every index read or shown
\* or being read is below min(frame_count, start + count).
PlayedInOrder ==
    /\ Len(viewer.displayed) = viewer.frame_num - viewer.start
    /\ \A k \in 1..Len(viewer.displayed) :
           /\ viewer.displayed[k] = viewer.start + k - 1
           /\ BelowLimit(viewer.displayed[k])
    /\ \A k \in 1..Len(viewer.reads) : BelowLimit(viewer.reads[k])
    /\ pc[Caller] # "idle" => BelowLimit(frame_number[Caller])

\* What holds of every step of the play loop: frame_num stays as it is
\* while paused, and a frame is saved on a key only when not paused, and
\* then it is the frame shown last, index frame_num - 1.
PlayStep ==
    /\ viewer.paused => viewer'.frame_num = viewer.frame_num
    /\ viewer'.saved # viewer.saved =>
           /\ ~viewer.paused
           /\ viewer.displayed # <<>>
           /\ viewer'.saved =
                  Append(viewer.saved,
                         viewer.displayed[Len(viewer.displayed)])
           /\ viewer.displayed[Len(viewer.displayed)] = viewer.frame_num - 1

\* C30: in the play loop of yuv_viewer, whatever keys come (none, pause /
\* resume, save), the frames displayed are start, start + 1, start + 2, ...
\* with none skipped and none shown twice; no index at or above
\* min(frame_count, start + count) is read or displayed; the index does not
\* advance while paused; and the 's' key, when not paused, saves the frame
\* displayed last, index frame_num - 1.
C30_PlayLoop == [](viewer.pc # "idle" => PlayedInOrder) /\ [][PlayStep]_vars

\* The play loop started at frame 1, showed two frames, saved one of them
\* on the 's' key and is paused before the end of its range.
C30_Witness ==
    /\ viewer.start = 1
    /\ Len(viewer.displayed) = 2
    /\ viewer.saved = <<1>>
    /\ viewer.paused
    /\ viewer.pc = "key"
    /\ BelowLimit(viewer.frame_num)

====
